---- MODULE Spec2Model ----
(***************************************************************************)
(* State-machine model of src/InteractiveTree.tsx: the dataset builders,   *)
(* the one-time layout effect and the per-frame interpolation callback.    *)
(*                                                                         *)
(* Arithmetic is fixed point.  Lengths are integers in quanta of           *)
(* 1/PosScale scene units, angles in units of 1/AngleScale radian, the     *)
(* clock in ticks of 1/TickRate second, Math.random() draws and speeds in  *)
(* 1/RandScale and 1/SpeedScale.  A product with a fraction is rounded to  *)
(* the nearest quantum, as a float operation rounds to the nearest float.  *)
(*                                                                         *)
(* Orientations: the datasets are drawn with the tilt draws that give no   *)
(* tilt (Euler x = z = 0), so every orientation of the model is a rotation *)
(* about the vertical axis and a quaternion is held as its rotation angle. *)
(* On such quaternions THREE's slerp is the interpolation of the angle     *)
(* along the shorter arc, which is how Slerp computes it.                  *)
(***************************************************************************)
EXTENDS Integers, Sequences, FiniteSets, TLC

\* ------------------------------------------------------------ bounds
\* Model stand-ins for PARTICLE_COUNT = 3500 and ORNAMENT_COUNT = 150.
PARTICLE_COUNT == 2
ORNAMENT_COUNT == 2
\* Frames of a run of Spec.
MaxFrames == 6
\* The frame delta of a stalled frame, in ticks (a normal frame is 1 tick).
StallTicks == 30

\* ------------------------------------------------------------ units
PosScale == 10000
AngleScale == 600
TickRate == 60
RandScale == 100
SpeedScale == 10000
\* pi and 2 pi in angle units
Pi == 1885
TwoPi == 3770

\* ------------------------------------------------------------ configuration
TREE_HEIGHT == 8 * PosScale
TREE_RADIUS_BASE == 35 * (PosScale \div 10)
SCATTER_RADIUS == 15 * PosScale

\* The value of 0/0 and of everything computed from it.
NaN == 0 - 999999999

\* ------------------------------------------------------------ arithmetic
Abs(a) == IF a < 0 THEN 0 - a ELSE a

\* a * n / d rounded to the nearest integer (d > 0), without forming a * n.
RoundMulDiv(a, n, d) == (a \div d) * n + (((a % d) * n + (d \div 2)) \div d)

ISqrt(n) == CHOOSE r \in 0..(RandScale * RandScale) : r * r <= n /\ (r + 1) * (r + 1) > n

ICbrt(n) == CHOOSE r \in 0..RandScale : r * r * r <= n /\ (r + 1) * (r + 1) * (r + 1) > n

\* sin on [0, pi], scaled by PosScale (Bhaskara's rational approximation).
SinArc(x) == (1600 * (x * (Pi - x))) \div ((5 * Pi * Pi - 4 * (x * (Pi - x))) \div 100)

\* Math.sin and Math.cos of an angle in angle units, scaled by PosScale.
Sin(a) == IF (a % TwoPi) <= Pi THEN SinArc(a % TwoPi) ELSE 0 - SinArc((a % TwoPi) - Pi)

Cos(a) == Sin(a + (Pi \div 2))

\* F applied to the value of e: e is evaluated once, before F's body.
Apply(e, F(_)) == CHOOSE r \in { F(v) : v \in { e } } : TRUE

\* ------------------------------------------------------------ vectors
Vec(x, y, z) == [x |-> x, y |-> y, z |-> z]

ZeroVec == Vec(0, 0, 0)

\* Vector3.addScalar
AddScalar(v, s) == Vec(v.x + s, v.y + s, v.z + s)

\* Vector3.add
VAdd(v, w) == Vec(v.x + w.x, v.y + w.y, v.z + w.z)

\* Vector3.setScalar
SetScalar(s) == Vec(s, s, s)

\* A blend factor num/den.
Factor(num, den) == [num |-> num, den |-> den]

\* MathUtils.lerp and one axis of Vector3.lerp: x + (y - x) * t.
Lerp(x, y, t) == x + RoundMulDiv(y - x, t.num, t.den)

\* Vector3.lerp
VLerp(v, w, t) == Vec(Lerp(v.x, w.x, t), Lerp(v.y, w.y, t), Lerp(v.z, w.z, t))

\* ------------------------------------------------------------ Math.random
\* The draws of one dataset entry, each in 0..RandScale-1 (a value in [0, 1)),
\* in the order the builder calls Math.random().  Needle entry: sphere u, v, r;
\* cone y, theta, r; treeRot x, y, z; scatterRot x, y, z; speed.
NeedleTapes ==
  << << 75, 50, 99,   99,  0, 99,   50, 25, 50,   0, 50, 0,    0 >>,
     <<  0,  0,  0,    0,  0,  0,   50,  0, 50,   0,  0, 0,   99 >>,
     << 25, 75, 50,   50, 50, 99,   50, 75, 50,   0, 99, 0,   50 >> >>

\* Ornament entry: sphere u, v, r; cone surface y, theta; color; scale; speed.
OrnamentTapes ==
  << <<  0, 50, 99,    0,  0,    0,  0,  0 >>,
     << 50, 25, 50,   99, 50,   99, 99, 99 >>,
     << 75, 99, 10,   50, 25,   50, 50, 50 >> >>

\* The draws entry i gets when the generator's state at construction is seed.
NeedleDraws(seed, i) == NeedleTapes[((seed + i) % Len(NeedleTapes)) + 1]

OrnamentDraws(seed, i) == OrnamentTapes[((seed + i) % Len(OrnamentTapes)) + 1]

\* ------------------------------------------------------------ samplers
\* randomInSphere, with its three draws u, v, w.
randomInSphere(radius, u, v, w) ==
  LET theta  == (TwoPi * u) \div RandScale
      cosPhi == 2 * v - RandScale
      sinPhi == ISqrt(RandScale * RandScale - cosPhi * cosPhi)
      r      == (ICbrt(w * RandScale * RandScale) * radius) \div RandScale
      rSin   == (r * sinPhi) \div RandScale
  IN  Vec(RoundMulDiv(rSin, Cos(theta), PosScale),
          RoundMulDiv(rSin, Sin(theta), PosScale),
          (r * cosPhi) \div RandScale)

\* Mutant of RadiusAtHeight: the cross-section does not shrink with height.
RadiusAtHeightNoTaper(y, height, radiusBase) == IF height = 0 THEN NaN ELSE radiusBase

\* (1 - y / height) * radiusBase; y / height is 0/0 when height = 0.
RadiusAtHeight(y, height, radiusBase) ==
  IF height = 0 THEN NaN
  ELSE ((RandScale - ((y * RandScale) \div height)) * radiusBase) \div RandScale

\* r * c / PosScale, NaN when r is.
Scaled(r, c) == IF r = NaN THEN NaN ELSE RoundMulDiv(r, c, PosScale)

\* randomInCone, with its three draws.
randomInCone(height, radiusBase, d1, d2, d3) ==
  LET y         == (d1 * height) \div RandScale
      rAtHeight == RadiusAtHeight(y, height, radiusBase)
      theta     == (d2 * TwoPi) \div RandScale
      r         == IF rAtHeight = NaN THEN NaN
                   ELSE (ISqrt(d3 * RandScale) * rAtHeight) \div RandScale
  IN  Vec(Scaled(r, Cos(theta)), y, Scaled(r, Sin(theta)))

\* randomOnConeSurface, with its two draws.
randomOnConeSurface(height, radiusBase, d1, d2) ==
  LET y         == (d1 * height) \div RandScale
      rAtHeight == RadiusAtHeight(y, height, radiusBase)
      theta     == (d2 * TwoPi) \div RandScale
      r         == IF rAtHeight = NaN THEN NaN ELSE rAtHeight + (PosScale \div 10)
  IN  Vec(Scaled(r, Cos(theta)), y, Scaled(r, Sin(theta)))

\* ------------------------------------------------------------ datasets
\* The geometry the builders are configured with.
Geometry == [height |-> TREE_HEIGHT, radiusBase |-> TREE_RADIUS_BASE, scatterRadius |-> SCATTER_RADIUS]

\* new THREE.Euler(x, y, z), angles in angle units.
Euler(x, y, z) == [x |-> x, y |-> y, z |-> z]

\* (Math.random() - 0.5) * 0.5 radian
Tilt(d) == ((d - (RandScale \div 2)) * AngleScale) \div (2 * RandScale)

\* One iteration of the needleData loop, d its 13 draws.
NeedleEntry(g, d) ==
  [ scatterPos |-> randomInSphere(g.scatterRadius, d[1], d[2], d[3]),
    treePos    |-> randomInCone(g.height, g.radiusBase, d[4], d[5], d[6]),
    treeRot    |-> Euler(Tilt(d[7]), (d[8] * TwoPi) \div RandScale, Tilt(d[9])),
    scatterRot |-> Euler((d[10] * Pi) \div RandScale, (d[11] * Pi) \div RandScale,
                         (d[12] * Pi) \div RandScale),
    speed      |-> (2 * SpeedScale + d[13] * 4 * (SpeedScale \div RandScale)) \div 100 ]

\* The palette of ornamentData.
colors == << "#ffd700", "#ff3366", "#ffffff" >>

\* One iteration of the ornamentData loop, d its 8 draws.
OrnamentEntry(g, d) ==
  [ scatterPos |-> randomInSphere(g.scatterRadius, d[1], d[2], d[3]),
    treePos    |-> randomOnConeSurface(g.height, g.radiusBase, d[4], d[5]),
    color      |-> colors[((d[6] * Len(colors)) \div RandScale) + 1],
    scale      |-> (15 * PosScale + d[7] * 25 * (PosScale \div RandScale)) \div 100,
    speed      |-> (15 * SpeedScale + d[8] * 30 * (SpeedScale \div RandScale)) \div 1000 ]

\* The useMemo tables.
BuildNeedleData(g, seed) ==
  [ k \in 1..PARTICLE_COUNT |-> NeedleEntry(g, NeedleDraws(seed, k - 1)) ]

BuildOrnamentData(g, seed) ==
  [ k \in 1..ORNAMENT_COUNT |-> OrnamentEntry(g, OrnamentDraws(seed, k - 1)) ]

\* The generator states tried: every rotation of the tapes.
Seeds == 0..(Len(NeedleTapes) - 1)

\* ------------------------------------------------------------ transforms
\* A Matrix4 holding a translation, a rotation about the vertical axis and a
\* scale, kept as those three.  quaternion = NaN: the 3x3 block holds NaN.
Matrix(p, q, s) == [position |-> p, quaternion |-> q, scale |-> s]

\* An instanceMatrix slot nothing has written: all zeros.
ZeroMatrix == Matrix(ZeroVec, 0, ZeroVec)

\* new THREE.Matrix4(): the identity.
IdentityMatrix == Matrix(ZeroVec, 0, SetScalar(PosScale))

NaNVec == Vec(NaN, NaN, NaN)

HasNaN(v) == v.x = NaN \/ v.y = NaN \/ v.z = NaN

\* Matrix4.compose: a NaN in the rotation or the scale is in every entry of the
\* 3x3 block.
Compose(p, q, s) == IF q = NaN \/ HasNaN(s) THEN Matrix(p, NaN, NaNVec) ELSE Matrix(p, q, s)

\* A transform Matrix4.decompose gives back as composed.
Decomposable(m) == m.quaternion # NaN /\ ~HasNaN(m.scale) /\ m.scale.x # 0 /\ m.scale.y # 0 /\ m.scale.z # 0

\* Matrix4.decompose: the scale is the length of each column, the rotation the
\* columns divided by it (0/0 = NaN for a zero column).
Decompose(m) ==
  IF Decomposable(m) THEN m
  ELSE IF m.quaternion = NaN THEN Matrix(m.position, NaN, NaNVec)
  ELSE Matrix(m.position, NaN, m.scale)

\* Quaternion.setFromEuler for an Euler angle without tilt: the angle about Y.
SetFromEuler(e) == e.y % TwoPi

\* Quaternion.multiply by setFromAxisAngle((0,1,0), angle).
MultiplyAxisY(q, angle) == (q + angle) % TwoPi

\* Quaternion.slerp: t = 0 keeps this, t = 1 copies qb, otherwise the angle
\* moves by t times the shorter arc to qb.
Slerp(qa, qb, t) ==
  IF t.num = 0 THEN qa
  ELSE IF t.num = t.den THEN qb
  ELSE IF qa = NaN \/ qb = NaN THEN NaN
  ELSE (qa + RoundMulDiv(((qb - qa + Pi) % TwoPi) - Pi, t.num, t.den)) % TwoPi

\* new THREE.Object3D(): origin, identity rotation, unit scale.
NewObject3D == [position |-> ZeroVec, quaternion |-> 0, scale |-> SetScalar(PosScale), matrix |-> IdentityMatrix]

\* Object3D.updateMatrix
UpdateMatrix(o) == [o EXCEPT !.matrix = Compose(o.position, o.quaternion, o.scale)]

\* Mutant of ReadSlot: the scale is not read back from the slot.
ReadSlotKeepScale(o, m) ==
  [o EXCEPT !.matrix = m, !.position = Decompose(m).position, !.quaternion = Decompose(m).quaternion]

\* Mutant of ReadSlot: the rotation is decomposed into another quaternion.
ReadSlotKeepQuaternion(o, m) ==
  [o EXCEPT !.matrix = m, !.position = Decompose(m).position, !.scale = Decompose(m).scale]

\* getMatrixAt(i, dummy.matrix); dummy.matrix.decompose(position, quaternion, scale)
ReadSlot(o, m) ==
  Apply(Decompose(m), LAMBDA t :
  [o EXCEPT !.matrix = m, !.position = t.position, !.quaternion = t.quaternion, !.scale = t.scale])

\* ------------------------------------------------------------ time
\* An elapsed time of clock ticks, as an angle in radians times num/den.
TimeAngle(clock, num, den) == (clock * AngleScale * num) \div (TickRate * den)

\* The index i as an angle of i radians.
IndexAngle(i) == i * AngleScale

\* Mutant of NeedleFactor: speed * 30 * delta.
NeedleFactorHalved(speed, dt) == Factor(speed * dt, (SpeedScale * TickRate) \div 30)

\* Mutant of NeedleFactor: speed * 60, the delta left out.
NeedleFactorPerSecond(speed, dt) == Factor(speed * TickRate, (SpeedScale * TickRate) \div 60)

\* Mutant of NeedleFactor: the factor clamped to at most 1.
NeedleFactorClamped(speed, dt) ==
  Factor(IF speed * dt > (SpeedScale * TickRate) \div 60 THEN (SpeedScale * TickRate) \div 60 ELSE speed * dt,
         (SpeedScale * TickRate) \div 60)

\* The blend factors: speed * 60 * delta and speed * 50 * delta.
NeedleFactor(speed, dt) == Factor(speed * dt, (SpeedScale * TickRate) \div 60)

OrnamentFactor(speed, dt) == Factor(speed * dt, (SpeedScale * TickRate) \div 50)

\* Mutant of NeedleSlerpFactor: the ornaments' speed * 50 * delta.
NeedleSlerpFactorFifty(speed, dt) == Factor(speed * dt, (SpeedScale * TickRate) \div 50)

\* The factor of the needles' slerp: data.speed * 60 * delta, written out
\* again.
NeedleSlerpFactor(speed, dt) == Factor(speed * dt, (SpeedScale * TickRate) \div 60)

\* ------------------------------------------------------------ state
VARIABLES
  treeState,      \* the treeState prop the frame callback closes over
  clock,          \* state.clock.elapsedTime, in ticks
  frames,         \* frames run so far
  delta,          \* the delta of the latest frame, in ticks (0: none yet)
  mounted,        \* the refs are attached and the layout effect has run
  lastFlip,       \* the value of frames when treeState last changed (-1: never)
  geometry,       \* the height and radii the datasets were built with
  needleData,     \* useMemo table of the needles
  ornamentData,   \* useMemo table of the ornaments
  dummy,          \* the shared scratch Object3D
  tempVec,        \* the shared scratch Vector3
  needleMatrix,   \* needlesMesh.instanceMatrix, slot -> Matrix
  ornamentMatrix, \* ornamentsMesh.instanceMatrix, slot -> Matrix
  instanceColor,  \* ornamentsMesh.instanceColor, slot -> color
  starMesh,       \* the topper: position.y, rotation.y, scale.x
  coarse          \* a second run of the same scene (used by SpecRate only)

vars == << treeState, clock, frames, delta, mounted, lastFlip, geometry, needleData, ornamentData,
           dummy, tempVec, needleMatrix, ornamentMatrix, instanceColor, starMesh, coarse >>

\* The objects the effects and the frame callback reach.
World ==
  [ needleData |-> needleData, ornamentData |-> ornamentData, dummy |-> dummy,
    tempVec |-> tempVec, needleMatrix |-> needleMatrix, ornamentMatrix |-> ornamentMatrix,
    instanceColor |-> instanceColor, starMesh |-> starMesh ]

TREE_SHAPE == "TREE_SHAPE"

SCATTERED == "SCATTERED"

TreeMorphState == { SCATTERED, TREE_SHAPE }

\* ------------------------------------------------------------ layout effect
\* One iteration of the ornament loop of the layout effect.
SetupOrnament(w, i) ==
  Apply(UpdateMatrix([w.dummy EXCEPT !.scale = SetScalar(w.ornamentData[i + 1].scale)]), LAMBDA d :
  [w EXCEPT !.dummy = d, !.ornamentMatrix[i] = d.matrix,
            !.instanceColor[i] = w.ornamentData[i + 1].color])

\* Mutant of SetupNeedle: the slot is also placed at the scatter position.
SetupNeedleAtScatter(w, i) ==
  Apply(UpdateMatrix([w.dummy EXCEPT !.position = w.needleData[i + 1].scatterPos,
                                     !.scale = Vec(PosScale \div 10, (4 * PosScale) \div 10, PosScale \div 10)]), LAMBDA d :
  [w EXCEPT !.dummy = d, !.needleMatrix[i] = d.matrix])

\* One iteration of the needle loop of the layout effect.
SetupNeedle(w, i) ==
  Apply(UpdateMatrix([w.dummy EXCEPT !.scale = Vec(PosScale \div 10, (4 * PosScale) \div 10, PosScale \div 10)]), LAMBDA d :
  [w EXCEPT !.dummy = d, !.needleMatrix[i] = d.matrix])

RECURSIVE SetupOrnaments(_, _)
SetupOrnaments(w, i) ==
  IF i >= Len(w.ornamentData) THEN w
  ELSE Apply(SetupOrnament(w, i), LAMBDA v : SetupOrnaments(v, i + 1))

RECURSIVE SetupNeedles(_, _)
SetupNeedles(w, i) ==
  IF i >= Len(w.needleData) THEN w
  ELSE Apply(SetupNeedle(w, i), LAMBDA v : SetupNeedles(v, i + 1))

\* Mutant of LayoutEffect: the needle slots are not written.
LayoutEffectOrnamentsOnly(w) == SetupOrnaments(w, 0)

\* The useLayoutEffect callback: ornaments first, then needles.
LayoutEffect(w) == Apply(SetupOrnaments(w, 0), LAMBDA v : SetupNeedles(v, 0))

\* ------------------------------------------------------------ frame callback
\* Mutant of NeedleTargetPos: the condition inverted.
NeedleTargetPosSwapped(data, isTree) == IF isTree THEN data.scatterPos ELSE data.treePos

NeedleTargetPos(data, isTree) == IF isTree THEN data.treePos ELSE data.scatterPos

\* Mutant of NeedleTargetRot: the arranged orientation whatever the mode.
NeedleTargetRotArranged(data, isTree) == data.treeRot

NeedleTargetRot(data, isTree) == IF isTree THEN data.treeRot ELSE data.scatterRot

\* Math.sin(time + i) * 0.5
NeedleFloat(time, i) == RoundMulDiv(Sin(TimeAngle(time, 1, 1) + IndexAngle(i)), 1, 2)

\* Mutant of NeedleTempVec: targetPos.addScalar(...) without the copy, which
\* moves the dataset's own vector.
NeedleTempVecInPlace(w, i, isTree, time) ==
  IF ~isTree
  THEN [w EXCEPT !.needleData[i + 1].scatterPos = AddScalar(@, Sin(TimeAngle(time, 1, 1) + IndexAngle(i)) \div 2),
                 !.tempVec = AddScalar(w.needleData[i + 1].scatterPos, Sin(TimeAngle(time, 1, 1) + IndexAngle(i)) \div 2)]
  ELSE [w EXCEPT !.tempVec = w.needleData[i + 1].treePos]

\* Mutant of NeedleTempVec: the floating motion is added in both modes.
NeedleTempVecAlwaysFloat(w, i, isTree, time) ==
  [w EXCEPT !.tempVec = AddScalar(NeedleTargetPos(w.needleData[i + 1], isTree), NeedleFloat(time, i))]

\* tempVec.copy(targetPos).addScalar(...) / tempVec.copy(targetPos)
NeedleTempVec(w, i, isTree, time) ==
  IF ~isTree
  THEN [w EXCEPT !.tempVec = AddScalar(NeedleTargetPos(w.needleData[i + 1], isTree), NeedleFloat(time, i))]
  ELSE [w EXCEPT !.tempVec = NeedleTargetPos(w.needleData[i + 1], isTree)]

\* setFromEuler(targetRot), times the slow spin about Y when scattered.
NeedleTargetQuat(data, isTree, time) ==
  IF ~isTree
  THEN MultiplyAxisY(SetFromEuler(NeedleTargetRot(data, isTree)), TimeAngle(time, 1, 10))
  ELSE SetFromEuler(NeedleTargetRot(data, isTree))

\* Mutant of NeedleScale: the scale does not follow the mode.
NeedleScaleFixed(isTree) == PosScale

\* dummy.scale.setScalar(isTree ? 1 : 0.5)
NeedleScale(isTree) == IF isTree THEN PosScale ELSE PosScale \div 2

\* The body of needleData.forEach for index i.
NeedleStep(w, i, isTree, time, dt) ==
  Apply(NeedleTempVec(w, i, isTree, time), LAMBDA w1 :
  Apply(w1.needleData[i + 1], LAMBDA data :
  Apply(ReadSlot(w1.dummy, w1.needleMatrix[i]), LAMBDA d1 :
  Apply(NeedleFactor(data.speed, dt), LAMBDA f :
  Apply([d1 EXCEPT !.position = VLerp(d1.position, w1.tempVec, f),
                   !.quaternion = Slerp(d1.quaternion, NeedleTargetQuat(data, isTree, time),
                                        NeedleSlerpFactor(data.speed, dt)),
                   !.scale = SetScalar(NeedleScale(isTree))], LAMBDA d2 :
  Apply(UpdateMatrix(d2), LAMBDA d3 :
  [w1 EXCEPT !.dummy = d3, !.needleMatrix[i] = d3.matrix]))))))

OrnamentTargetPos(data, isTree) == IF isTree THEN data.treePos ELSE data.scatterPos

\* The bob of an arranged ornament and the float of a scattered one.
OrnamentOffset(isTree, time, i) ==
  IF isTree
  THEN Vec(0, RoundMulDiv(Sin(TimeAngle(time, 2, 1) + IndexAngle(i)), 1, 20), 0)
  ELSE Vec(Sin(TimeAngle(time, 1, 2) + IndexAngle(i)),
           Cos(TimeAngle(time, 3, 10) + IndexAngle(i)),
           Sin(TimeAngle(time, 7, 10) + IndexAngle(i)))

\* Mutant of OrnamentTempVec: the frame also calls setColorAt when arranged.
OrnamentTempVecTint(w, i, isTree, time) ==
  [w EXCEPT !.tempVec = VAdd(IF isTree THEN w.ornamentData[i + 1].treePos ELSE w.ornamentData[i + 1].scatterPos,
                             IF isTree THEN Vec(0, Sin(TimeAngle(time, 2, 1) + IndexAngle(i)) \div 20, 0)
                             ELSE Vec(Sin(TimeAngle(time, 1, 2) + IndexAngle(i)),
                                      Cos(TimeAngle(time, 3, 10) + IndexAngle(i)),
                                      Sin(TimeAngle(time, 7, 10) + IndexAngle(i)))),
            !.instanceColor[i] = IF isTree THEN "#ffd700" ELSE @]

\* tempVec.copy(targetPos), then tempVec.y += ... or .add(new Vector3(...))
OrnamentTempVec(w, i, isTree, time) ==
  [w EXCEPT !.tempVec = VAdd(OrnamentTargetPos(w.ornamentData[i + 1], isTree), OrnamentOffset(isTree, time, i))]

\* dummy.rotation.set(0, time * 0.5 + i, 0)
OrnamentRotation(time, i) == (TimeAngle(time, 1, 2) + IndexAngle(i)) % TwoPi

\* The body of ornamentData.forEach for index i.
OrnamentStep(w, i, isTree, time, dt) ==
  Apply(ReadSlot(w.dummy, w.ornamentMatrix[i]), LAMBDA d1 :
  Apply(OrnamentTempVec(w, i, isTree, time), LAMBDA w1 :
  Apply(w1.ornamentData[i + 1], LAMBDA data :
  Apply([d1 EXCEPT !.position = VLerp(d1.position, w1.tempVec, OrnamentFactor(data.speed, dt)),
                   !.quaternion = OrnamentRotation(time, i)], LAMBDA d2 :
  Apply(UpdateMatrix(d2), LAMBDA d3 :
  [w1 EXCEPT !.dummy = d3, !.ornamentMatrix[i] = d3.matrix])))))

RECURSIVE NeedlesLoop(_, _, _, _, _)
NeedlesLoop(w, i, isTree, time, dt) ==
  IF i >= Len(w.needleData) THEN w
  ELSE Apply(NeedleStep(w, i, isTree, time, dt), LAMBDA v : NeedlesLoop(v, i + 1, isTree, time, dt))

RECURSIVE OrnamentsLoop(_, _, _, _, _)
OrnamentsLoop(w, i, isTree, time, dt) ==
  IF i >= Len(w.ornamentData) THEN w
  ELSE Apply(OrnamentStep(w, i, isTree, time, dt), LAMBDA v : OrnamentsLoop(v, i + 1, isTree, time, dt))

\* <mesh ref={starMesh} position={[0, TREE_HEIGHT + 0.5, 0]}>
NewStar == [y |-> TREE_HEIGHT + (PosScale \div 2), rotationY |-> 0, scale |-> PosScale]

\* Mutant of StarStep: the star spins only while arranged.
StarStepSpinArranged(w, isTree, dt) ==
  [w EXCEPT !.starMesh =
     [ y         |-> Lerp(w.starMesh.y, IF isTree THEN TREE_HEIGHT + (PosScale \div 2) ELSE 20 * PosScale,
                          Factor(dt * 2, TickRate)),
       rotationY |-> IF isTree THEN w.starMesh.rotationY + TimeAngle(dt, 1, 2) ELSE w.starMesh.rotationY,
       scale     |-> Lerp(w.starMesh.scale, IF isTree THEN (15 * PosScale) \div 10 ELSE 0,
                          Factor(dt * 3, TickRate)) ]]

\* 3. Animate Star
StarStep(w, isTree, dt) ==
  [w EXCEPT !.starMesh =
     [ y         |-> Lerp(w.starMesh.y, IF isTree THEN TREE_HEIGHT + (PosScale \div 2) ELSE 20 * PosScale,
                          Factor(dt * 2, TickRate)),
       rotationY |-> w.starMesh.rotationY + TimeAngle(dt, 1, 2),
       scale     |-> Lerp(w.starMesh.scale, IF isTree THEN (15 * PosScale) \div 10 ELSE 0,
                          Factor(dt * 3, TickRate)) ]]

\* The useFrame callback: mode read once, then needles, ornaments, star.
FrameResult(w, mode, time, dt) ==
  Apply(NeedlesLoop(w, 0, mode = TREE_SHAPE, time, dt),
        LAMBDA v : Apply(OrnamentsLoop(v, 0, mode = TREE_SHAPE, time, dt),
                         LAMBDA u : StarStep(u, mode = TREE_SHAPE, dt)))

\* ------------------------------------------------------------ actions
\* The frame deltas tried: a normal frame and a stalled one.
DtChoices == { 1, StallTicks }

\* The other run is not used.
NoRun == [clock |-> 0, world |-> << >>]

\* The state after the first render: datasets and scratch objects built, the
\* instance buffers allocated by THREE (zero-filled or identity-filled,
\* depending on its version), nothing committed yet.
InitScene(g, seed, m0) ==
  /\ geometry = g
  /\ needleData = BuildNeedleData(g, seed)
  /\ ornamentData = BuildOrnamentData(g, seed)
  /\ dummy = NewObject3D
  /\ tempVec = ZeroVec
  /\ needleMatrix = [i \in 0..(PARTICLE_COUNT - 1) |-> m0]
  /\ ornamentMatrix = [i \in 0..(ORNAMENT_COUNT - 1) |-> m0]
  /\ instanceColor = [i \in 0..(ORNAMENT_COUNT - 1) |-> "unset"]
  /\ starMesh = NewStar
  /\ clock = 0
  /\ frames = 0
  /\ delta = 0
  /\ mounted = FALSE
  /\ lastFlip = 0 - 1

Init ==
  /\ treeState \in TreeMorphState
  /\ \E seed \in Seeds, m0 \in { ZeroMatrix, IdentityMatrix } : InitScene(Geometry, seed, m0)
  /\ coarse = NoRun

\* The variables World stands for take the values of e.
Becomes(e) ==
  \E w \in { e } :
  /\ needleData' = w.needleData
  /\ ornamentData' = w.ornamentData
  /\ dummy' = w.dummy
  /\ tempVec' = w.tempVec
  /\ needleMatrix' = w.needleMatrix
  /\ ornamentMatrix' = w.ornamentMatrix
  /\ instanceColor' = w.instanceColor
  /\ starMesh' = w.starMesh

\* The commit of the first render: React attaches the refs and runs the layout
\* effect before any animation frame can run; its dependencies never change,
\* so it runs this once.
Mount ==
  /\ ~mounted
  /\ mounted' = TRUE
  /\ Becomes(LayoutEffect(World))
  /\ UNCHANGED << treeState, clock, frames, delta, lastFlip, geometry, coarse >>

\* The parent passes the other treeState: the component re-renders, the
\* useMemo values and the layout effect are kept, the frame callback closes
\* over the new value.
SetTreeState ==
  /\ mounted
  /\ lastFlip # frames
  /\ treeState' = IF treeState = TREE_SHAPE THEN SCATTERED ELSE TREE_SHAPE
  /\ lastFlip' = frames
  /\ UNCHANGED << clock, frames, delta, mounted, geometry, needleData, ornamentData, dummy, tempVec,
                  needleMatrix, ornamentMatrix, instanceColor, starMesh, coarse >>

\* One call of the useFrame callback with delta = dt ticks.
Frame(dt) ==
  /\ mounted
  /\ frames < MaxFrames
  /\ clock' = clock + dt
  /\ frames' = frames + 1
  /\ delta' = dt
  /\ Becomes(FrameResult(World, treeState, clock + dt, dt))
  /\ UNCHANGED << treeState, mounted, lastFlip, geometry, coarse >>

Next == Mount \/ SetTreeState \/ \E dt \in DtChoices : Frame(dt)

Spec == Init /\ [][Next]_vars

\* ------------------------------------------------------------ scenario
\* The run of the concrete scenario: SCATTERED for 5 s, then ARRANGED for
\* 3 s, every frame of one tick (1/60 s).
ScatterFrames == 5 * TickRate

ScenarioFrames == ScatterFrames + 3 * TickRate

InitScenario ==
  /\ treeState = SCATTERED
  /\ \E seed \in Seeds, m0 \in { ZeroMatrix, IdentityMatrix } : InitScene(Geometry, seed, m0)
  /\ coarse = NoRun

\* A frame of one tick; the frame at the flip time waits for the flip.
ScenarioFrame ==
  /\ mounted
  /\ frames < ScenarioFrames
  /\ frames = ScatterFrames => treeState = TREE_SHAPE
  /\ clock' = clock + 1
  /\ frames' = frames + 1
  /\ delta' = 1
  /\ Becomes(FrameResult(World, treeState, clock + 1, 1))
  /\ UNCHANGED << treeState, mounted, lastFlip, geometry, coarse >>

\* The flip of the scenario.
ScenarioFlip ==
  /\ frames = ScatterFrames
  /\ treeState = SCATTERED
  /\ SetTreeState

NextScenario == Mount \/ ScenarioFlip \/ ScenarioFrame

SpecScenario == InitScenario /\ [][NextScenario]_vars

\* ------------------------------------------------------------ steady mode
\* Runs with the mode held and a steady frame rate: every frame has the delta
\* chosen at the start, one for which every blend factor is in (0, 1].
MaxHoldFrames == 700
HoldDeltas == { 1, 16 }

InitHold ==
  /\ treeState \in TreeMorphState
  /\ \E seed \in Seeds : InitScene(Geometry, seed, ZeroMatrix)
  /\ coarse = NoRun

\* Mount, and the frame loop starts at one of the steady rates.
HoldMount ==
  /\ ~mounted
  /\ mounted' = TRUE
  /\ delta' \in HoldDeltas
  /\ Becomes(LayoutEffect(World))
  /\ UNCHANGED << treeState, clock, frames, lastFlip, geometry, coarse >>

HoldFrame ==
  /\ mounted
  /\ frames < MaxHoldFrames
  /\ clock' = clock + delta
  /\ frames' = frames + 1
  /\ Becomes(FrameResult(World, treeState, clock + delta, delta))
  /\ UNCHANGED << treeState, delta, mounted, lastFlip, geometry, coarse >>

NextHold == HoldMount \/ HoldFrame

\* requestAnimationFrame keeps calling the frame callback.
SpecHold == InitHold /\ [][NextHold]_vars /\ WF_vars(HoldMount) /\ WF_vars(HoldFrame)

\* ------------------------------------------------------------ two frame rates
\* The same scene advanced twice from the state the setup pass leaves, with
\* the mode held: the run in the variables by frames of one tick, the run in
\* coarse by frames of RateRatio ticks, the largest delta for which every
\* needle factor (speed < 0.06) stays below 1.
RateRatio == SpeedScale \div (6 * (SpeedScale \div 100))
MaxRateFrames == 64

InitRate ==
  /\ treeState \in TreeMorphState
  /\ \E seed \in Seeds : InitScene(Geometry, seed, ZeroMatrix)
  /\ coarse = NoRun

RateMount ==
  /\ ~mounted
  /\ mounted' = TRUE
  /\ Becomes(LayoutEffect(World))
  /\ coarse' = [clock |-> 0, world |-> LayoutEffect(World)]
  /\ UNCHANGED << treeState, clock, frames, delta, lastFlip, geometry >>

\* A frame of one tick of the fine run.
FineFrame ==
  /\ mounted
  /\ frames < MaxRateFrames
  /\ clock < coarse.clock + RateRatio
  /\ clock' = clock + 1
  /\ frames' = frames + 1
  /\ delta' = 1
  /\ Becomes(FrameResult(World, treeState, clock + 1, 1))
  /\ UNCHANGED << treeState, mounted, lastFlip, geometry, coarse >>

\* A frame of RateRatio ticks of the coarse run, ending at the same time.
CoarseFrame ==
  /\ mounted
  /\ clock = coarse.clock + RateRatio
  /\ coarse' = [clock |-> clock, world |-> FrameResult(coarse.world, treeState, clock, RateRatio)]
  /\ UNCHANGED << treeState, clock, frames, delta, mounted, lastFlip, geometry, needleData, ornamentData,
                  dummy, tempVec, needleMatrix, ornamentMatrix, instanceColor, starMesh >>

NextRate == RateMount \/ FineFrame \/ CoarseFrame

SpecRate == InitRate /\ [][NextRate]_vars

\* ------------------------------------------------------------ configuration
\* The dataset builders run with a geometry that may be degenerate: the
\* loops of the two useMemo callbacks, one push per step.
Geometries ==
  { [height |-> h, radiusBase |-> r, scatterRadius |-> SCATTER_RADIUS] :
      h \in { 0, TREE_HEIGHT }, r \in { 0, TREE_RADIUS_BASE } }

InitConfig ==
  /\ geometry \in Geometries
  /\ needleData = << >>
  /\ ornamentData = << >>
  /\ treeState \in TreeMorphState
  /\ dummy = NewObject3D
  /\ tempVec = ZeroVec
  /\ needleMatrix = [i \in 0..(PARTICLE_COUNT - 1) |-> ZeroMatrix]
  /\ ornamentMatrix = [i \in 0..(ORNAMENT_COUNT - 1) |-> ZeroMatrix]
  /\ instanceColor = [i \in 0..(ORNAMENT_COUNT - 1) |-> "unset"]
  /\ starMesh = NewStar
  /\ clock = 0
  /\ frames = 0
  /\ delta = 0
  /\ mounted = FALSE
  /\ lastFlip = 0 - 1
  /\ coarse = NoRun

\* temp.push({...}) of the needleData loop.
PushNeedle ==
  /\ Len(needleData) < PARTICLE_COUNT
  /\ \E k \in 1..Len(NeedleTapes) : needleData' = Append(needleData, NeedleEntry(geometry, NeedleTapes[k]))
  /\ UNCHANGED << treeState, clock, frames, delta, mounted, lastFlip, geometry, ornamentData, dummy, tempVec,
                  needleMatrix, ornamentMatrix, instanceColor, starMesh, coarse >>

\* temp.push({...}) of the ornamentData loop, which runs after the needles'.
PushOrnament ==
  /\ Len(needleData) = PARTICLE_COUNT
  /\ Len(ornamentData) < ORNAMENT_COUNT
  /\ \E k \in 1..Len(OrnamentTapes) : ornamentData' = Append(ornamentData, OrnamentEntry(geometry, OrnamentTapes[k]))
  /\ UNCHANGED << treeState, clock, frames, delta, mounted, lastFlip, geometry, needleData, dummy, tempVec,
                  needleMatrix, ornamentMatrix, instanceColor, starMesh, coarse >>

NextConfig == PushNeedle \/ PushOrnament

SpecConfig == InitConfig /\ [][NextConfig]_vars

\* ------------------------------------------------------------ cone sampler
\* The needleData loop run with cones of several heights and base radii, the
\* three draws of randomInCone taken from grids that include both ends of
\* [0, 1); the other draws of an entry are those of the first tape.
ConeGeometries ==
  { [height |-> TREE_HEIGHT, radiusBase |-> TREE_RADIUS_BASE, scatterRadius |-> SCATTER_RADIUS],
    [height |-> PosScale, radiusBase |-> TREE_RADIUS_BASE, scatterRadius |-> SCATTER_RADIUS],
    [height |-> TREE_HEIGHT, radiusBase |-> PosScale \div 2, scatterRadius |-> SCATTER_RADIUS] }

HeightDraws == { 0, 1, 50, RandScale - 1 }

ThetaDraws == { 0, 13, 25, 50, 75 }

RadiusDraws == { 0, 50, RandScale - 1 }

InitCone ==
  /\ geometry \in ConeGeometries
  /\ needleData = << >>
  /\ ornamentData = << >>
  /\ treeState = SCATTERED
  /\ dummy = NewObject3D
  /\ tempVec = ZeroVec
  /\ needleMatrix = [i \in 0..(PARTICLE_COUNT - 1) |-> ZeroMatrix]
  /\ ornamentMatrix = [i \in 0..(ORNAMENT_COUNT - 1) |-> ZeroMatrix]
  /\ instanceColor = [i \in 0..(ORNAMENT_COUNT - 1) |-> "unset"]
  /\ starMesh = NewStar
  /\ clock = 0
  /\ frames = 0
  /\ delta = 0
  /\ mounted = FALSE
  /\ lastFlip = 0 - 1
  /\ coarse = NoRun

\* One iteration of the needleData loop.
SampleNeedle ==
  /\ Len(needleData) < PARTICLE_COUNT
  /\ \E d1 \in HeightDraws, d2 \in ThetaDraws, d3 \in RadiusDraws :
       needleData' = Append(needleData,
                            NeedleEntry(geometry, [NeedleTapes[1] EXCEPT ![4] = d1, ![5] = d2, ![6] = d3]))
  /\ UNCHANGED << treeState, clock, frames, delta, mounted, lastFlip, geometry, ornamentData, dummy, tempVec,
                  needleMatrix, ornamentMatrix, instanceColor, starMesh, coarse >>

NextCone == SampleNeedle

SpecCone == InitCone /\ [][NextCone]_vars

\* ------------------------------------------------------------ long stalls
\* Runs with the mode held in which a frame may follow a long stall: a delta
\* of LongStallTicks makes speed * 60 * delta exceed 2 for every needle (the
\* lowest speed is 0.02), StallTicks makes it exceed 1 for the faster ones.
LongStallTicks == 101
MaxStallFrames == 4

StallDeltas == { 1, StallTicks, LongStallTicks }

StallFrame(dt) ==
  /\ mounted
  /\ frames < MaxStallFrames
  /\ clock' = clock + dt
  /\ frames' = frames + 1
  /\ delta' = dt
  /\ Becomes(FrameResult(World, treeState, clock + dt, dt))
  /\ UNCHANGED << treeState, mounted, lastFlip, geometry, coarse >>

NextStall == Mount \/ \E dt \in StallDeltas : StallFrame(dt)

SpecStall == Init /\ [][NextStall]_vars

\* ------------------------------------------------------------ properties
Needles == 0..(PARTICLE_COUNT - 1)

Ornaments == 0..(ORNAMENT_COUNT - 1)

\* v is within distance r of w (r < 2 units, so that the squares are small).
Within(v, w, r) ==
  /\ Abs(v.x - w.x) <= r
  /\ Abs(v.y - w.y) <= r
  /\ Abs(v.z - w.z) <= r
  /\ (v.x - w.x) * (v.x - w.x) + (v.y - w.y) * (v.y - w.y) + (v.z - w.z) * (v.z - w.z) <= r * r

\* The scenario has run to its end.
ScenarioDone == mounted /\ frames = ScenarioFrames /\ treeState = TREE_SHAPE

\* C1 as stated: at the end of the scenario (SCATTERED for 5 s, then ARRANGED
\* for 3 s, frames of 1/60 s) every needle is within 0.05 units of its
\* arrangedPosition.
C1_Within005 ==
  ScenarioDone =>
    \A i \in Needles : Within(needleMatrix[i].position, needleData[i + 1].treePos, (5 * PosScale) \div 100)

\* C1 amended: at the end of the scenario every needle is within 0.65 units of
\* its arrangedPosition (the slowest needles, speed 0.02, keep 0.98^180 = 2.6 %
\* of the distance they had at the flip, which is up to about 23 units).
C1_Within065 ==
  ScenarioDone =>
    \A i \in Needles : Within(needleMatrix[i].position, needleData[i + 1].treePos, (65 * PosScale) \div 100)

\* Witness of C1: the scenario has ended and a needle of the lowest speed 0.02
\* is farther than 0.05 units from its arrangedPosition, yet within 0.65.
C1_Witness ==
  /\ ScenarioDone
  /\ \E i \in Needles :
       /\ needleData[i + 1].speed = (2 * SpeedScale) \div 100
       /\ ~Within(needleMatrix[i].position, needleData[i + 1].treePos, (5 * PosScale) \div 100)
       /\ Within(needleMatrix[i].position, needleData[i + 1].treePos, (65 * PosScale) \div 100)

\* The mode the latest frame read (for frames >= 1): treeState, unless it
\* was flipped after that frame.
ModeRead ==
  IF lastFlip = frames THEN (IF treeState = TREE_SHAPE THEN SCATTERED ELSE TREE_SHAPE) ELSE treeState

\* C2: after every frame every needle's scale is exactly 1 when the frame
\* read ARRANGED and exactly 0.5 when it read SCATTERED, whatever it was before
\* (0.1, 0.4, 0.1 after setup; the other constant after a flip).
C2_ScaleSnapped ==
  (mounted /\ frames >= 1) =>
    \A i \in Needles :
      needleMatrix[i].scale =
        (IF ModeRead = TREE_SHAPE THEN Vec(PosScale, PosScale, PosScale)
         ELSE Vec(PosScale \div 2, PosScale \div 2, PosScale \div 2))

\* Witness of C2: the first frame after a flip from SCATTERED to ARRANGED has
\* run and left every needle at scale 1.
C2_Witness ==
  /\ mounted /\ lastFlip >= 1 /\ frames = lastFlip + 1 /\ treeState = TREE_SHAPE
  /\ \A i \in Needles : needleMatrix[i].scale = Vec(PosScale, PosScale, PosScale)

\* |a - b| <= r on every axis, r a vector of bounds.
AxisWithin(v, w, r) == Abs(v.x - w.x) <= r.x /\ Abs(v.y - w.y) <= r.y /\ Abs(v.z - w.z) <= r.z

\* The small epsilon of C3: 0.01 units.
Epsilon == PosScale \div 100

\* The bounds of the secondary-motion offsets, per axis, plus Epsilon.
NeedleReach(mode) ==
  IF mode = TREE_SHAPE THEN SetScalar(Epsilon) ELSE SetScalar((PosScale \div 2) + Epsilon)

OrnamentReach(mode) ==
  IF mode = TREE_SHAPE THEN Vec(Epsilon, (PosScale \div 20) + Epsilon, Epsilon)
  ELSE SetScalar(PosScale + Epsilon)

ModeTarget(data, mode) == IF mode = TREE_SHAPE THEN data.treePos ELSE data.scatterPos

\* Every element is as near its mode's target as its secondary motion allows.
Settled ==
  /\ mounted
  /\ \A i \in Needles :
       AxisWithin(needleMatrix[i].position, ModeTarget(needleData[i + 1], treeState), NeedleReach(treeState))
  /\ \A i \in Ornaments :
       AxisWithin(ornamentMatrix[i].position, ModeTarget(ornamentData[i + 1], treeState), OrnamentReach(treeState))

\* C3: with the mode held and every blend factor in (0, 1], every needle and
\* ornament eventually is, and from then on stays, within the bound of its
\* secondary-motion offset plus Epsilon of its mode's target position.
C3_Converges == <>[]Settled

\* Witness of C3: a settled scattered scene in which a needle floats, farther
\* than Epsilon from its scatterPosition.
C3_Witness ==
  /\ Settled /\ treeState = SCATTERED /\ frames > 1
  /\ \E i \in Needles :
       ~AxisWithin(needleMatrix[i].position, needleData[i + 1].scatterPos, SetScalar(Epsilon))

\* The frame step from the unprimed to the primed state took every target
\* from treeState, the mode current at that frame.
TargetsFromCurrentMode ==
  /\ \A i \in Needles :
       /\ needleMatrix'[i].position =
            VLerp(needleMatrix[i].position,
                  IF treeState = TREE_SHAPE THEN needleData[i + 1].treePos
                  ELSE AddScalar(needleData[i + 1].scatterPos, NeedleFloat(clock', i)),
                  NeedleFactor(needleData[i + 1].speed, clock' - clock))
       /\ needleMatrix'[i].quaternion =
            Slerp(needleMatrix[i].quaternion,
                  IF treeState = TREE_SHAPE THEN needleData[i + 1].treeRot.y
                  ELSE (needleData[i + 1].scatterRot.y + TimeAngle(clock', 1, 10)) % TwoPi,
                  NeedleFactor(needleData[i + 1].speed, clock' - clock))
       /\ needleMatrix'[i].scale =
            IF treeState = TREE_SHAPE THEN SetScalar(PosScale) ELSE SetScalar(PosScale \div 2)
  /\ \A i \in Ornaments :
       /\ ornamentMatrix'[i].position =
            VLerp(ornamentMatrix[i].position,
                  VAdd(IF treeState = TREE_SHAPE THEN ornamentData[i + 1].treePos
                       ELSE ornamentData[i + 1].scatterPos,
                       OrnamentOffset(treeState = TREE_SHAPE, clock', i)),
                  OrnamentFactor(ornamentData[i + 1].speed, clock' - clock))
       /\ ornamentMatrix'[i].scale = ornamentMatrix[i].scale
  /\ starMesh'.y = Lerp(starMesh.y, IF treeState = TREE_SHAPE THEN TREE_HEIGHT + (PosScale \div 2) ELSE 20 * PosScale,
                        Factor(2 * (clock' - clock), TickRate))
  /\ starMesh'.scale = Lerp(starMesh.scale, IF treeState = TREE_SHAPE THEN (15 * PosScale) \div 10 ELSE 0,
                            Factor(3 * (clock' - clock), TickRate))

\* C4: every frame, the first after a flip included, takes the target
\* position, target orientation and scale of every needle, ornament and the
\* topper from the mode current at that frame, and from nothing earlier.
C4_FlipNextFrame == [][frames' = frames + 1 => TargetsFromCurrentMode]_vars

\* Witness of C4: the first frame after a flip from ARRANGED to SCATTERED has
\* run: the needles are at half scale and the topper has left its rest height.
C4_Witness ==
  /\ mounted /\ lastFlip >= 1 /\ frames = lastFlip + 1 /\ treeState = SCATTERED
  /\ \A i \in Needles : needleMatrix[i].scale = SetScalar(PosScale \div 2)
  /\ starMesh.y > TREE_HEIGHT + (PosScale \div 2)

\* C5: the color buffer is unset before the setup pass and from then on holds,
\* for every ornament, the color of its dataset entry, one of the 3 palette
\* values, whatever frames and mode flips have happened.
C5_ColorsFixed ==
  /\ ~mounted => \A i \in Ornaments : instanceColor[i] = "unset"
  /\ mounted => \A i \in Ornaments :
       /\ instanceColor[i] = ornamentData[i + 1].color
       /\ instanceColor[i] \in { "#ffd700", "#ff3366", "#ffffff" }

\* Witness of C5: frames have run in both modes and the colors are those of
\* the dataset, of which two differ.
C5_Witness ==
  /\ mounted /\ frames >= 3 /\ lastFlip >= 1
  /\ \A i \in Ornaments : instanceColor[i] = ornamentData[i + 1].color
  /\ instanceColor[0] # instanceColor[1]

\* C6: after the setup pass and after every frame every ornament's scale in
\* the instance buffer is the scale of its dataset entry.
C6_OrnamentScaleKept ==
  mounted => \A i \in Ornaments : ornamentMatrix[i].scale = SetScalar(ornamentData[i + 1].scale)

\* Witness of C6: frames have run in both modes, the latest after the needles
\* loop left the scratch object at a needle's scale, and two ornaments of
\* different scales still have their own.
C6_Witness ==
  /\ mounted /\ frames >= 2 /\ lastFlip >= 1 /\ lastFlip < frames
  /\ \A i \in Ornaments : ornamentMatrix[i].scale = SetScalar(ornamentData[i + 1].scale)
  /\ ornamentData[1].scale # ornamentData[2].scale

\* C7: no step (setup pass, frame, mode flip) changes a dataset entry or the
\* size of a table or of an instance buffer.
C7_StaticDataFixed ==
  [][ /\ needleData' = needleData
      /\ ornamentData' = ornamentData
      /\ Len(needleData') = PARTICLE_COUNT
      /\ Len(ornamentData') = ORNAMENT_COUNT
      /\ DOMAIN needleMatrix' = Needles
      /\ DOMAIN ornamentMatrix' = Ornaments ]_vars

\* Witness of C7: after frames in both modes the scratch vector holds a target
\* derived from the last ornament's entry and differs from both its positions.
C7_Witness ==
  /\ mounted /\ frames >= 2 /\ lastFlip >= 1
  /\ tempVec # ornamentData[ORNAMENT_COUNT].scatterPos
  /\ tempVec # ornamentData[ORNAMENT_COUNT].treePos

\* C8: whenever a frame can run (the scene is mounted), every slot of both
\* instance buffers holds a decomposable transform, and no frame has run
\* before the setup pass.
C8_BuffersDecomposable ==
  /\ frames > 0 => mounted
  /\ mounted =>
       /\ \A i \in Needles : Decomposable(needleMatrix[i])
       /\ \A i \in Ornaments : Decomposable(ornamentMatrix[i])

\* Witness of C8: the first frame has run, has moved a needle, and has left
\* decomposable transforms.
C8_Witness ==
  /\ mounted /\ frames = 1
  /\ \E i \in Needles : needleMatrix[i].position # ZeroVec
  /\ \A i \in Needles : Decomposable(needleMatrix[i])
  /\ \A i \in Ornaments : Decomposable(ornamentMatrix[i])

\* The small tolerance of C9: 0.1 units.
RateTolerance == PosScale \div 10

\* C9: whenever the fine run (frames of 1 tick) and the coarse run (frames of
\* RateRatio ticks) have covered the same elapsed time from the same start,
\* with the mode held and every blend factor at most 1, the positions of
\* every needle and ornament agree within RateTolerance.
C9_FrameRateIndependent ==
  (mounted /\ coarse.clock = clock) =>
    /\ \A i \in Needles :
         AxisWithin(needleMatrix[i].position, coarse.world.needleMatrix[i].position, SetScalar(RateTolerance))
    /\ \A i \in Ornaments :
         AxisWithin(ornamentMatrix[i].position, coarse.world.ornamentMatrix[i].position, SetScalar(RateTolerance))

\* A configured height or radius of zero.
Degenerate(g) == g.height = 0 \/ g.radiusBase = 0

\* C10: with a degenerate geometry the builders are never run (the
\* configuration is rejected), and no dataset entry holds a NaN position.
C10_DegenerateRejected ==
  /\ Degenerate(geometry) => (needleData = << >> /\ ornamentData = << >>)
  /\ \A k \in 1..Len(needleData) : ~HasNaN(needleData[k].treePos) /\ ~HasNaN(needleData[k].scatterPos)
  /\ \A k \in 1..Len(ornamentData) : ~HasNaN(ornamentData[k].treePos) /\ ~HasNaN(ornamentData[k].scatterPos)

\* ------------------------------------------------------------ blend factors
\* speed * 60 * dt as a factor, dt in ticks.
TimesSixty(speed, dt) == Factor(speed * dt, (SpeedScale * TickRate) \div 60)

\* The position target the frame ending at time computes for needle i.
NeedleGoal(i, mode, time) ==
  IF mode = TREE_SHAPE THEN needleData[i + 1].treePos
  ELSE AddScalar(needleData[i + 1].scatterPos, NeedleFloat(time, i))

\* The position target the frame ending at time computes for ornament i.
OrnamentGoal(i, mode, time) ==
  VAdd(IF mode = TREE_SHAPE THEN ornamentData[i + 1].treePos ELSE ornamentData[i + 1].scatterPos,
       OrnamentOffset(mode = TREE_SHAPE, time, i))

\* The orientation target the frame ending at time computes for needle i.
NeedleGoalQuat(i, mode, time) ==
  IF mode = TREE_SHAPE THEN needleData[i + 1].treeRot.y % TwoPi
  ELSE (needleData[i + 1].scatterRot.y + TimeAngle(time, 1, 10)) % TwoPi

\* The step is a call of the frame callback.
IsFrame == frames' = frames + 1

\* C11: in every frame every needle and every ornament has its position
\* blended toward its computed target by the factor speed * 60 * dt, speed its
\* dataset speed and dt the frame's delta.
C11_FactorSixty ==
  [][IsFrame =>
       /\ \A i \in Needles :
            needleMatrix'[i].position =
              VLerp(needleMatrix[i].position, NeedleGoal(i, treeState, clock'),
                    TimesSixty(needleData[i + 1].speed, clock' - clock))
       /\ \A i \in Ornaments :
            ornamentMatrix'[i].position =
              VLerp(ornamentMatrix[i].position, OrnamentGoal(i, treeState, clock'),
                    TimesSixty(ornamentData[i + 1].speed, clock' - clock))]_vars

\* speed * 50 * dt as a factor, dt in ticks.
TimesFifty(speed, dt) == Factor(speed * dt, (SpeedScale * TickRate) \div 50)

\* C12 as stated: in every frame every element, needle or ornament, has its
\* orientation spherically interpolated from the orientation in its slot
\* toward its target orientation, by the factor used for its position.
C12_AllSlerp ==
  [][IsFrame =>
       /\ \A i \in Needles :
            needleMatrix'[i].quaternion =
              Slerp(needleMatrix[i].quaternion, NeedleGoalQuat(i, treeState, clock'),
                    TimesSixty(needleData[i + 1].speed, clock' - clock))
       /\ \A i \in Ornaments :
            ornamentMatrix'[i].quaternion =
              Slerp(ornamentMatrix[i].quaternion, (TimeAngle(clock', 1, 2) + IndexAngle(i)) % TwoPi,
                    TimesFifty(ornamentData[i + 1].speed, clock' - clock))]_vars

\* C12 amended: in every frame every needle's orientation is spherically
\* interpolated from the orientation in its slot toward the mode's target
\* orientation by the factor that frame uses for its position; every
\* ornament's orientation is set, without interpolation, to the rotation about
\* the vertical axis by t * 0.5 + index radians.
C12_NeedlesSlerp ==
  [][IsFrame =>
       /\ \A i \in Needles :
            \E f \in { TimesSixty(needleData[i + 1].speed, clock' - clock) } :
              /\ needleMatrix'[i].position = VLerp(needleMatrix[i].position, NeedleGoal(i, treeState, clock'), f)
              /\ needleMatrix'[i].quaternion =
                   Slerp(needleMatrix[i].quaternion, NeedleGoalQuat(i, treeState, clock'), f)
       /\ \A i \in Ornaments :
            ornamentMatrix'[i].quaternion = (TimeAngle(clock', 1, 2) + IndexAngle(i)) % TwoPi]_vars

\* Witness of C12: after two frames a scattered needle is part of the way to
\* its target orientation and an ornament is exactly at the angle of the
\* latest frame, which is not the angle of the frame before.
C12_Witness ==
  /\ mounted /\ frames >= 2 /\ treeState = SCATTERED /\ lastFlip < 0
  /\ \E i \in Needles :
       /\ needleMatrix[i].quaternion # 0
       /\ needleMatrix[i].quaternion # NeedleGoalQuat(i, treeState, clock)
  /\ \E i \in Ornaments :
       /\ ornamentMatrix[i].quaternion = (TimeAngle(clock, 1, 2) + IndexAngle(i)) % TwoPi
       /\ ornamentMatrix[i].quaternion # (TimeAngle(clock - delta, 1, 2) + IndexAngle(i)) % TwoPi

\* The coordinates of a vector, in order.
Axes(v) == << v.x, v.y, v.z >>

\* speed * 60 * dt > k, dt in ticks.
FactorAbove(speed, dt, k) == speed * dt * 60 > k * SpeedScale * TickRate

\* a and b are not strictly on the same side of t.
NotSameSide(a, b, t) == ~(a > t /\ b > t) /\ ~(a < t /\ b < t)

\* a and b are strictly on opposite sides of t.
OppositeSides(a, b, t) == (a > t /\ b < t) \/ (a < t /\ b > t)

\* C13: the factor is not clamped.  A frame whose speed * 60 * dt exceeds 1
\* takes a needle's position, on every axis, from one side of the frame's
\* target to the other (strictly, when it was at least Epsilon away, so that
\* the rounding of one quantum does not decide); a frame whose factor exceeds
\* 2 leaves it, on every axis, no nearer the target than it was, and strictly
\* farther when it was at least Epsilon away.
C13_Overshoot ==
  [][IsFrame =>
       \A i \in Needles : \A a \in 1..3 :
         \E t \in { Axes(NeedleGoal(i, treeState, clock'))[a] } :
         \E p \in { Axes(needleMatrix[i].position)[a] } :
         \E q \in { Axes(needleMatrix'[i].position)[a] } :
           /\ FactorAbove(needleData[i + 1].speed, clock' - clock, 1) =>
                /\ NotSameSide(p, q, t)
                /\ Abs(p - t) >= Epsilon => OppositeSides(p, q, t)
           /\ FactorAbove(needleData[i + 1].speed, clock' - clock, 2) =>
                /\ Abs(q - t) >= Abs(p - t)
                /\ Abs(p - t) >= Epsilon => Abs(q - t) > Abs(p - t)]_vars

\* Witness of C13: two frames after long stalls in ARRANGED mode, and a
\* needle is now above its arrangedPosition by more than the height it
\* started below it.
C13_Witness ==
  /\ mounted /\ frames >= 2 /\ delta = LongStallTicks /\ treeState = TREE_SHAPE
  /\ \E i \in Needles :
       /\ needleData[i + 1].treePos.y > 0
       /\ needleMatrix[i].position.y - needleData[i + 1].treePos.y > needleData[i + 1].treePos.y

\* The target the needles loop leaves in tempVec for needle i in a frame that
\* reads mode and ends at time.
NeedleTargetAt(i, mode, time) == NeedleTempVec(World, i, mode = TREE_SHAPE, time).tempVec

\* v = w + (o, o, o) with |o| <= r.
ShiftedWithin(v, w, r) ==
  /\ Abs(v.x - w.x) <= r
  /\ v.y - w.y = v.x - w.x
  /\ v.z - w.z = v.x - w.x

\* C14: in every frame, the target a needle is blended toward is exactly its
\* arrangedPosition when the frame reads ARRANGED, whatever the elapsed time
\* and the index; when it reads SCATTERED the target is its scatterPosition
\* plus one offset, the same on the three axes, of at most 0.5 in absolute
\* value.
C14_NeedleTargets ==
  [][IsFrame =>
       \A i \in Needles :
         \E T \in { NeedleTargetAt(i, treeState, clock') } :
           /\ needleMatrix'[i].position =
                VLerp(needleMatrix[i].position, T, TimesSixty(needleData[i + 1].speed, clock' - clock))
           /\ treeState = TREE_SHAPE => T = needleData[i + 1].treePos
           /\ treeState = SCATTERED => ShiftedWithin(T, needleData[i + 1].scatterPos, PosScale \div 2)]_vars

\* Witness of C14: two scattered frames have run, the offset of the latest
\* differs between the two needles (index) and from the offset of the frame
\* before (time), and a needle has moved toward its floating target.
C14_Witness ==
  /\ mounted /\ frames >= 2 /\ treeState = SCATTERED /\ lastFlip < 0
  /\ NeedleTargetAt(0, SCATTERED, clock).x - needleData[1].scatterPos.x
       # NeedleTargetAt(1, SCATTERED, clock).x - needleData[2].scatterPos.x
  /\ NeedleTargetAt(0, SCATTERED, clock) # NeedleTargetAt(0, SCATTERED, clock - delta)
  /\ NeedleTargetAt(0, SCATTERED, clock) # needleData[1].scatterPos
  /\ needleMatrix[0].position # ZeroVec

\* x moved toward y by num * dt / TickRate of the way (dt in ticks), rounded
\* to the nearest quantum.
BlendedBy(x, y, num, dt) == x + (((y - x) * num * dt + (TickRate \div 2)) \div TickRate)

\* The topper's height and scale targets.
StarAwayY == 20 * PosScale

StarApexY == TREE_HEIGHT + (PosScale \div 2)

StarFullScale == (15 * PosScale) \div 10

\* C15: in every frame the topper's spin angle grows by 0.5 * dt in either
\* mode, its height is blended by the factor 2 * dt toward 20 (SCATTERED) or
\* treeHeight + 0.5 (ARRANGED), and its scale by the factor 3 * dt toward 0
\* (SCATTERED) or 1.5 (ARRANGED).
C15_Topper ==
  [][IsFrame =>
       /\ 2 * TickRate * (starMesh'.rotationY - starMesh.rotationY) = AngleScale * (clock' - clock)
       /\ starMesh'.y =
            BlendedBy(starMesh.y, IF treeState = SCATTERED THEN StarAwayY ELSE StarApexY, 2, clock' - clock)
       /\ starMesh'.scale =
            BlendedBy(starMesh.scale, IF treeState = SCATTERED THEN 0 ELSE StarFullScale, 3, clock' - clock)]_vars

\* Witness of C15: frames have run in both modes, the latest in SCATTERED;
\* the topper has spun by half the elapsed time, is above its rest height and
\* smaller than its full size.
C15_Witness ==
  /\ mounted /\ frames >= 2 /\ lastFlip >= 1 /\ lastFlip < frames /\ treeState = SCATTERED
  /\ 2 * TickRate * starMesh.rotationY = AngleScale * clock
  /\ starMesh.y > StarApexY
  /\ starMesh.scale < StarFullScale

\* r * (1 - y / h), for h and r multiples of 100 quanta.
ConeRadiusAt(y, h, r) == ((h - y) * (r \div 100)) \div (h \div 100)

\* p is inside the cone of height h and base radius r standing on y = 0.
InCone(p, h, r) ==
  /\ 0 <= p.y
  /\ p.y < h
  /\ p.x * p.x + p.z * p.z <= ConeRadiusAt(p.y, h, r) * ConeRadiusAt(p.y, h, r)

\* C16: every point the cone-volume sampler has returned, for a height h > 0
\* and a base radius r > 0, has 0 <= y < h and a distance from the axis of at
\* most r * (1 - y / h).
C16_InCone ==
  (geometry.height > 0 /\ geometry.radiusBase > 0) =>
    \A k \in 1..Len(needleData) : InCone(needleData[k].treePos, geometry.height, geometry.radiusBase)

\* Witness of C16: the table is full and holds a point sampled with the
\* largest height and radius draws: just under the apex, off the axis.
C16_Witness ==
  /\ Len(needleData) = PARTICLE_COUNT
  /\ \E k \in 1..Len(needleData) :
       /\ needleData[k].treePos.y = ((RandScale - 1) * geometry.height) \div RandScale
       /\ needleData[k].treePos.x # 0

\* Contents the scratch objects may hold when an element's step starts: as
\* constructed, left by some other element, and not finite.
Scratches ==
  { [dummy |-> NewObject3D, tempVec |-> ZeroVec],
    [dummy |-> [position |-> Vec(7 * PosScale, 0 - PosScale, 3), quaternion |-> 1234,
                scale |-> Vec(3 * PosScale, PosScale \div 7, 11),
                matrix |-> Matrix(Vec(1, 2, 3), 77, SetScalar(5))],
     tempVec |-> Vec(0 - 9 * PosScale, 4 * PosScale, 1)],
    [dummy |-> [position |-> NaNVec, quaternion |-> NaN, scale |-> ZeroVec,
                matrix |-> ZeroMatrix],
     tempVec |-> NaNVec] }

\* The state with the scratch objects holding s.
Rescratched(s) == [World EXCEPT !.dummy = s.dummy, !.tempVec = s.tempVec]

\* C17: the transform a frame writes for an element is the one its own step
\* computes from its previous slot, its dataset entry, its index, the mode, t
\* and dt, whatever the scratch objects hold when the step starts: nothing
\* the earlier elements, or the needles loop, left in dummy and tempVec is in
\* the result.
C17_ScratchNoLeak ==
  [][IsFrame =>
       \A s \in Scratches :
         /\ \A i \in Needles :
              needleMatrix'[i] =
                NeedleStep(Rescratched(s), i, treeState = TREE_SHAPE, clock', clock' - clock).needleMatrix[i]
         /\ \A i \in Ornaments :
              ornamentMatrix'[i] =
                OrnamentStep(Rescratched(s), i, treeState = TREE_SHAPE, clock', clock' - clock).ornamentMatrix[i]]_vars

\* Witness of C17: two frames have run; the scratch objects hold the last
\* ornament's transform and target, which are not those of the first needle
\* nor of the first ornament.
C17_Witness ==
  /\ mounted /\ frames >= 2
  /\ dummy.matrix = ornamentMatrix[ORNAMENT_COUNT - 1]
  /\ dummy.position # needleMatrix[0].position
  /\ dummy.quaternion # needleMatrix[0].quaternion
  /\ dummy.scale # needleMatrix[0].scale
  /\ dummy.position # ornamentMatrix[0].position
  /\ tempVec # ZeroVec

\* q lies between p and t, ends included.
Between(q, p, t) == (p <= q /\ q <= t) \/ (t <= q /\ q <= p)

\* speed * 60 * dt <= 1, dt in ticks (speed and dt are not negative).
FactorInUnit(speed, dt) == speed * dt * 60 <= SpeedScale * TickRate

\* C18: in a frame that reads ARRANGED, a needle whose factor speed * 60 * dt
\* is in [0, 1] ends, on every axis, between its previous position and its
\* arrangedPosition: no farther from the target, and not across it.
C18_OnSegment ==
  [][(IsFrame /\ treeState = TREE_SHAPE) =>
       \A i \in Needles :
         FactorInUnit(needleData[i + 1].speed, clock' - clock) =>
           \A a \in 1..3 :
             /\ Between(Axes(needleMatrix'[i].position)[a], Axes(needleMatrix[i].position)[a],
                        Axes(needleData[i + 1].treePos)[a])
             /\ Abs(Axes(needleMatrix'[i].position)[a] - Axes(needleData[i + 1].treePos)[a])
                  <= Abs(Axes(needleMatrix[i].position)[a] - Axes(needleData[i + 1].treePos)[a])]_vars

\* Witness of C18: ARRANGED since the start, the latest of several frames a
\* stalled one with a factor of 0.6 for a needle of speed 0.02, which is
\* strictly between the origin and its arrangedPosition.
C18_Witness ==
  /\ mounted /\ frames >= 2 /\ treeState = TREE_SHAPE /\ lastFlip < 0 /\ delta = StallTicks
  /\ \E i \in Needles :
       /\ needleData[i + 1].speed = (2 * SpeedScale) \div 100
       /\ FactorInUnit(needleData[i + 1].speed, delta)
       /\ 0 < needleMatrix[i].position.y
       /\ needleMatrix[i].position.y < needleData[i + 1].treePos.y

\* Every slot of both buffers, in the primed state, is at the origin with the
\* identity rotation.
SlotsAtOrigin ==
  /\ \A i \in Needles : needleMatrix'[i].position = ZeroVec /\ needleMatrix'[i].quaternion = 0
  /\ \A i \in Ornaments : ornamentMatrix'[i].position = ZeroVec /\ ornamentMatrix'[i].quaternion = 0

\* The first frame blends every position from the origin.
FirstFrameFromOrigin ==
  /\ \A i \in Needles :
       needleMatrix'[i].position =
         VLerp(ZeroVec, NeedleGoal(i, treeState, clock'), TimesSixty(needleData[i + 1].speed, clock' - clock))
  /\ \A i \in Ornaments :
       ornamentMatrix'[i].position =
         VLerp(ZeroVec, OrnamentGoal(i, treeState, clock'), TimesFifty(ornamentData[i + 1].speed, clock' - clock))

\* C19: every step that ends after the setup pass and before the first frame
\* (the setup pass itself, a mode flip) leaves every needle slot and every
\* ornament slot at the origin with the identity rotation, in either mode, and
\* the first frame blends every element's position from the origin.
C19_SetupAtOrigin ==
  [][ /\ (mounted' /\ frames' = 0) => SlotsAtOrigin
      /\ (IsFrame /\ frames = 0) => FirstFrameFromOrigin ]_vars

\* Witness of C19: the first frame has run in SCATTERED mode and a needle is
\* where the blend from the origin toward its floating target puts it, which
\* is neither the origin nor its scatterPosition.
C19_Witness ==
  /\ mounted /\ frames = 1 /\ treeState = SCATTERED /\ lastFlip < 0
  /\ \E i \in Needles :
       /\ needleMatrix[i].position =
            VLerp(ZeroVec, NeedleGoal(i, SCATTERED, clock), TimesSixty(needleData[i + 1].speed, delta))
       /\ needleMatrix[i].position # ZeroVec
       /\ needleMatrix[i].position # needleData[i + 1].scatterPos

====
